---- MODULE Spec2Model ----
(***************************************************************************)
(* git-rescribe: the rebase planning and execution engine.                 *)
(*                                                                         *)
(* The plan file (a list of commit descriptors) is validated against the   *)
(* schema, planned entry by entry (createPlan) and executed entry by entry *)
(* (executeRescribe), against a git object store.  Strings are modelled as *)
(* the strings the code handles: hashes are hex strings, "previous",       *)
(* "rewritten:<hash>" and "pending" are themselves.                        *)
(***************************************************************************)
EXTENDS Integers, Sequences, FiniteSets, TLC

----------------------------------------------------------------------------
(* Strings                                                                 *)

\* JavaScript's null and undefined, as strings no input contains.
Null == "<null>"
Undefined == "<undefined>"

\* The values JavaScript treats as false in `if (!x)`.
Falsy(s) == s \in {Null, Undefined, ""}

CharAt(s, k) == SubSeq(s, k, k)

\* String.prototype.startsWith
StartsWith(s, p) == Len(p) <= Len(s) /\ SubSeq(s, 1, Len(p)) = p

\* String.prototype.substring(n): the string from (0-based) index n on.
Substring(s, n) == IF n >= Len(s) THEN "" ELSE SubSeq(s, n + 1, Len(s))

\* String.prototype.substring(0, n)
Prefix(s, n) == IF n >= Len(s) THEN s ELSE SubSeq(s, 1, n)

Whitespace == {" ", "\n", "\t"}

RECURSIVE TrimLeft(_)
TrimLeft(s) ==
    IF Len(s) > 0 /\ CharAt(s, 1) \in Whitespace
    THEN TrimLeft(Substring(s, 1))
    ELSE s

RECURSIVE TrimRight(_)
TrimRight(s) ==
    IF Len(s) > 0 /\ CharAt(s, Len(s)) \in Whitespace
    THEN TrimRight(Prefix(s, Len(s) - 1))
    ELSE s

\* String.prototype.trim
Trim(s) == TrimLeft(TrimRight(s))

\* The position of the first occurrence of character c in s at or after
\* position from, 0 when there is none.
IndexOf(s, c, from) ==
    IF \E k \in from..Len(s) : CharAt(s, k) = c
    THEN CHOOSE k \in from..Len(s) :
            /\ CharAt(s, k) = c
            /\ \A j \in from..(k - 1) : CharAt(s, j) # c
    ELSE 0

\* const [a, b] = s.split(":") : the text before the first colon and the
\* text between the first and the second colon (undefined without a colon).
SplitColon(s) ==
    LET c1 == IndexOf(s, ":", 1)
        c2 == IF c1 = 0 THEN 0 ELSE IndexOf(s, ":", c1 + 1)
    IN  IF c1 = 0 THEN <<s, Undefined>>
        ELSE <<Prefix(s, c1 - 1),
               IF c2 = 0 THEN Substring(s, c1)
               ELSE IF c2 = c1 + 1 THEN "" ELSE SubSeq(s, c1 + 1, c2 - 1)>>

----------------------------------------------------------------------------
(* schema.ts                                                               *)

HexDigits == {"0", "1", "2", "3", "4", "5", "6", "7", "8", "9",
              "a", "b", "c", "d", "e", "f"}

HashMinLen == 7
HashMaxLen == 40

\* [a-f0-9]{7,40}
HashPattern(s) ==
    /\ Len(s) >= HashMinLen
    /\ Len(s) <= HashMaxLen
    /\ \A k \in 1..Len(s) : CharAt(s, k) \in HexDigits

\* /^.+ <.+@.+>$/  (no identity of the model contains a line break)
IdentityPattern(s) ==
    \E sp \in 2..(Len(s) - 5) :
        /\ CharAt(s, sp) = " "
        /\ CharAt(s, sp + 1) = "<"
        /\ CharAt(s, Len(s)) = ">"
        /\ \E at \in (sp + 3)..(Len(s) - 2) : CharAt(s, at) = "@"

IdentitySchema(id) == IdentityPattern(id.identity)

\* /^(tree|diff|commit):[a-f0-9]{7,40}$/
ContentSchema(val) ==
    \E strategy \in {"tree", "diff", "commit"} :
        /\ StartsWith(val, strategy \o ":")
        /\ HashPattern(Substring(val, Len(strategy) + 1))

ParentSchema(p) ==
    \/ p = "previous"
    \/ StartsWith(p, "rewritten:") /\ HashPattern(Substring(p, Len("rewritten:")))
    \/ HashPattern(p)

CommitSchema(c) ==
    /\ IdentitySchema(c.author)
    /\ IdentitySchema(c.committer)
    /\ ContentSchema(c.content)
    /\ \A k \in 1..Len(c.parents) : ParentSchema(c.parents[k])

\* Mutant of RebaseSchema: only the first descriptor is validated.
RebaseSchemaFirstOnly(commits) == Len(commits) = 0 \/ CommitSchema(commits[1])

\* RebaseSchema.parse succeeds
RebaseSchema(commits) == \A k \in 1..Len(commits) : CommitSchema(commits[k])

----------------------------------------------------------------------------
(* The git object store, as the accessor functions see it                  *)

\* A 40-digit object name whose first seven digits are p.
Full(p) == p \o "000000000000000000000000000000000"

\* The object a (possibly abbreviated) name denotes among the names in
\* `names`, Null when git cannot resolve it.  Every name that reaches git
\* has passed the schema or is "", "pending" or the like.  git refuses an
\* abbreviated name that more than one object starts with ("short object ID
\* is ambiguous").
ResolveName(names, name) ==
    IF HashPattern(name) /\ Cardinality({h \in names : StartsWith(h, name)}) = 1
    THEN CHOOSE h \in names : StartsWith(h, name)
    ELSE Null

\* The tree objects of the repository.
TreeObjects == {Full("7ee0001"), Full("7ee0002"), Full("7ee0003")}

\* git show --format=%an%n%ae%n%aI%n%cn%n%ce%n%cI%n%T%n%P%n%B --no-patch hash,
\* split into fields.  When git cannot resolve the hash its output is empty:
\* the first field is "" and the others are undefined.
getCommitInfo(objs, hash) ==
    LET h == ResolveName(DOMAIN objs, hash)
    IN  IF h = Null
        THEN [authorName |-> "", authorEmail |-> Undefined,
              authorDate |-> Undefined, committerName |-> Undefined,
              committerEmail |-> Undefined, committerDate |-> Undefined,
              tree |-> Undefined, parents |-> <<>>, message |-> ""]
        ELSE [authorName |-> objs[h].authorName,
              authorEmail |-> objs[h].authorEmail,
              authorDate |-> objs[h].authorDate,
              committerName |-> objs[h].committerName,
              committerEmail |-> objs[h].committerEmail,
              committerDate |-> objs[h].committerDate,
              tree |-> objs[h].tree,
              parents |-> objs[h].parents,
              message |-> Trim(objs[h].message)]

\* git rev-parse <commitHash>^{tree}, trimmed.  git echoes an argument it
\* cannot resolve before it fails, and the exit code is not looked at.
getTreeHash(objs, commitHash) ==
    LET h == ResolveName(DOMAIN objs, commitHash)
    IN  IF h = Null THEN commitHash \o "^{tree}" ELSE objs[h].tree

\* `${x}` of a value that may be undefined
Interpolate(x) == IF x = Undefined THEN "undefined" ELSE x

formatIdentity(name, email) ==
    Interpolate(name) \o " <" \o Interpolate(email) \o ">"

\* identity.match(/^(.+?)\s*<(.+?)>$/): the position of the "<" that ends the
\* name, 0 when the identity does not match.
IdentityBracket(identity) ==
    LET p == IndexOf(identity, "<", 2)
    IN  IF /\ p # 0
           /\ p <= Len(identity) - 2
           /\ CharAt(identity, Len(identity)) = ">"
        THEN p ELSE 0

parseIdentity(identity) ==
    LET p == IdentityBracket(identity)
    IN  [name |-> Trim(Prefix(identity, p - 1)),
         email |-> Trim(SubSeq(identity, p + 1, Len(identity) - 1))]

Digit(n) == CharAt("0123456789", n + 1)

\* The name git gives a commit object: the name of the object with this
\* content if the store has it (content addressing), a new name otherwise.
ObjectName(objs, obj) ==
    IF \E h \in DOMAIN objs : objs[h] = obj
    THEN CHOOSE h \in DOMAIN objs : objs[h] = obj
    ELSE Full("fee00" \o Digit(Cardinality(DOMAIN objs) \div 10)
                      \o Digit(Cardinality(DOMAIN objs) % 10))

\* git commit-tree adds the line end a message lacks.
CompleteLine(m) ==
    IF Len(m) > 0 /\ CharAt(m, Len(m)) = "\n" THEN m ELSE m \o "\n"

\* git commit-tree ignores a parent it has been given before ("duplicate
\* parent ignored"): the list without its repetitions.
RECURSIVE DropDuplicates(_)
DropDuplicates(list) ==
    IF list = <<>> THEN <<>>
    ELSE LET front == DropDuplicates(SubSeq(list, 1, Len(list) - 1))
             last == list[Len(list)]
         IN  IF \E j \in 1..Len(front) : front[j] = last
             THEN front ELSE Append(front, last)

\* The commit object git commit-tree would write for these options.
CommitObject(objs, options) ==
    [tree |-> ResolveName(TreeObjects, options.tree),
     parents |-> DropDuplicates([k \in 1..Len(options.parents) |->
                    ResolveName(DOMAIN objs, options.parents[k])]),
     authorName |-> parseIdentity(options.author.identity).name,
     authorEmail |-> parseIdentity(options.author.identity).email,
     authorDate |-> options.author.date,
     committerName |-> parseIdentity(options.committer.identity).name,
     committerEmail |-> parseIdentity(options.committer.identity).email,
     committerDate |-> options.committer.date,
     message |-> CompleteLine(options.message)]

\* git commit-tree accepts the options: the tree and every parent resolve.
CommitTreeOk(objs, options) ==
    /\ ResolveName(TreeObjects, options.tree) # Null
    /\ \A k \in 1..Len(options.parents) :
          ResolveName(DOMAIN objs, options.parents[k]) # Null

\* createCommit: the trimmed output of git commit-tree, "" when git fails
\* (the exit code is not looked at), and the store afterwards.
createCommit(objs, options) ==
    IF CommitTreeOk(objs, options)
    THEN LET obj == CommitObject(objs, options)
             h == ObjectName(objs, obj)
         IN  [hash |-> h, objs |-> (h :> obj) @@ objs]
    ELSE [hash |-> "", objs |-> objs]

\* Mutant of updateCurrentBranch: the branch stays where it is.
updateCurrentBranchKept(objs, branch, commitHash) == branch

\* updateCurrentBranch: git update-ref and git reset --hard move the branch
\* when the hash resolves and fail, unnoticed, when it does not.
updateCurrentBranch(objs, branch, commitHash) ==
    LET h == ResolveName(DOMAIN objs, commitHash)
    IN  IF h = Null THEN branch ELSE h

----------------------------------------------------------------------------
(* planner.ts: the helpers of createPlan                                   *)

extractOriginalHash(content) ==
    LET parts == SplitColon(content)
    IN  IF parts[1] \in {"commit", "diff"} THEN parts[2] ELSE Null

\* The strategy is one resolveContentStrategy knows (it throws otherwise).
KnownStrategy(content) == SplitColon(content)[1] \in {"tree", "commit", "diff"}

\* resolveContentStrategy of the planner: the tree a content string names.
resolveContentStrategy(objs, content) ==
    LET parts == SplitColon(content)
    IN  IF parts[1] = "tree" THEN parts[2] ELSE getTreeHash(objs, parts[2])

\* value of rewrittenMap.get(key)
MapGet(map, key) == IF key \in DOMAIN map THEN map[key] ELSE Undefined

\* Mutant of MapSet: a key that has a value keeps it.
MapSetFirst(map, key, value) ==
    IF key \in DOMAIN map THEN map ELSE (key :> value) @@ map

\* value of the map after rewrittenMap.set(key, value)
MapSet(map, key, value) == (key :> value) @@ map

EmptyMap == <<>>

\* What one parent reference resolves to; Undefined or Null or "" stands for
\* a reference resolveParents throws on.
resolveParent(parent, previousCommit, rewrittenMap) ==
    IF parent = "previous" THEN previousCommit
    ELSE IF StartsWith(parent, "rewritten:")
         THEN MapGet(rewrittenMap, Substring(parent, Len("rewritten:")))
         ELSE parent

\* resolveParents throws: `previous` without a previous commit, or a
\* `rewritten:` reference the map has no (non-empty) value for.
resolveParentsThrows(parents, previousCommit, rewrittenMap) ==
    \E k \in 1..Len(parents) :
        /\ parents[k] = "previous" \/ StartsWith(parents[k], "rewritten:")
        /\ Falsy(resolveParent(parents[k], previousCommit, rewrittenMap))

resolveParents(parents, previousCommit, rewrittenMap) ==
    [k \in 1..Len(parents) |->
        resolveParent(parents[k], previousCommit, rewrittenMap)]

\* Mutant of parentsChanged: only the number of parents is compared.
parentsChangedCountOnly(originalParents, parents) ==
    Len(originalParents) # Len(parents)

\* The parents check of createPlan: a different number of parents, or an
\* original parent that does not start with the resolved parent.
parentsChanged(originalParents, parents) ==
    \/ Len(originalParents) # Len(parents)
    \/ \E j \in 1..Len(parents) : ~StartsWith(originalParents[j], parents[j])

Reason(cond, name) == IF cond THEN <<name>> ELSE <<>>

\* Mutant of changesAgainst: the committer date is not compared.
changesAgainstNoCommitterDate(originalInfo, commit, tree, parents) ==
    Reason(originalInfo.tree # tree, "content")
    \o Reason(parentsChanged(originalInfo.parents, parents), "parents")
    \o Reason(formatIdentity(originalInfo.authorName, originalInfo.authorEmail)
                # commit.author.identity, "author identity")
    \o Reason(originalInfo.authorDate # commit.author.date, "author date")
    \o Reason(formatIdentity(originalInfo.committerName,
                             originalInfo.committerEmail)
                # commit.committer.identity, "committer identity")
    \o Reason(originalInfo.message # commit.message, "message")

\* The changes createPlan lists for a descriptor with an original commit.
changesAgainst(originalInfo, commit, tree, parents) ==
    Reason(originalInfo.tree # tree, "content")
    \o Reason(parentsChanged(originalInfo.parents, parents), "parents")
    \o Reason(formatIdentity(originalInfo.authorName, originalInfo.authorEmail)
                # commit.author.identity, "author identity")
    \o Reason(originalInfo.authorDate # commit.author.date, "author date")
    \o Reason(formatIdentity(originalInfo.committerName,
                             originalInfo.committerEmail)
                # commit.committer.identity, "committer identity")
    \o Reason(originalInfo.committerDate # commit.committer.date,
              "committer date")
    \o Reason(originalInfo.message # commit.message, "message")

\* Mutant of planEntry: an entry with no listed change is reused, and a
\* descriptor without an original commit has no change listed.
planEntryReuseNew(objs, commit, previousCommit, rewrittenMap) ==
    LET originalHash == extractOriginalHash(commit.content)
        tree == resolveContentStrategy(objs, commit.content)
        parents == resolveParents(commit.parents, previousCommit, rewrittenMap)
        changes == IF ~Falsy(originalHash)
                   THEN changesAgainst(getCommitInfo(objs, originalHash),
                                       commit, tree, parents)
                   ELSE <<>>
    IN  [commit |-> commit,
         originalHash |-> originalHash,
         action |-> IF Len(changes) = 0 THEN "reuse" ELSE "create",
         changes |-> changes,
         tree |-> tree,
         parents |-> parents]

\* One iteration of createPlan's loop, for a descriptor whose parents
\* resolve: the plan entry it pushes.
planEntry(objs, commit, previousCommit, rewrittenMap) ==
    LET originalHash == extractOriginalHash(commit.content)
        tree == resolveContentStrategy(objs, commit.content)
        parents == resolveParents(commit.parents, previousCommit, rewrittenMap)
        changes == IF ~Falsy(originalHash)
                   THEN changesAgainst(getCommitInfo(objs, originalHash),
                                       commit, tree, parents)
                   ELSE <<"new commit">>
        canReuse == ~Falsy(originalHash) /\ Len(changes) = 0
    IN  [commit |-> commit,
         originalHash |-> originalHash,
         action |-> IF canReuse THEN "reuse" ELSE "create",
         changes |-> changes,
         tree |-> tree,
         parents |-> parents]

\* Mutant of nextPrevious: the cursor is the placeholder after every entry.
nextPreviousPending(entry) == "pending"

\* The cursor after an entry: its original hash if reused, "pending" if not.
nextPrevious(entry) ==
    IF ~Falsy(entry.originalHash) /\ entry.action = "reuse"
    THEN entry.originalHash
    ELSE "pending"

\* Mutant of nextRewrittenMap: every original hash is recorded as pending.
nextRewrittenMapPending(rewrittenMap, entry) ==
    IF ~Falsy(entry.originalHash)
    THEN MapSet(rewrittenMap, entry.originalHash, "pending")
    ELSE rewrittenMap

\* The replacement mapping after an entry.
nextRewrittenMap(rewrittenMap, entry) ==
    IF ~Falsy(entry.originalHash)
    THEN MapSet(rewrittenMap, entry.originalHash, nextPrevious(entry))
    ELSE rewrittenMap

----------------------------------------------------------------------------
(* The repository and the plan files of the model                          *)

Ann == "Ann <ann@x.io>"
Bob == "Bob <bob@x.io>"
Date1 == "2025-01-01T10:00:00+00:00"
Date2 == "2025-02-02T12:00:00+00:00"

Identity(identity, date) == [date |-> date, identity |-> identity]

RescribeCommit(content, parents, author, committer, message) ==
    [author |-> author, committer |-> committer, content |-> content,
     message |-> message, parents |-> parents]

\* A commit object as git stores it.
GitCommit(tree, parents, author, committer, message) ==
    [tree |-> tree, parents |-> parents,
     authorName |-> parseIdentity(author.identity).name,
     authorEmail |-> parseIdentity(author.identity).email,
     authorDate |-> author.date,
     committerName |-> parseIdentity(committer.identity).name,
     committerEmail |-> parseIdentity(committer.identity).email,
     committerDate |-> committer.date,
     message |-> message]

\* The repository the plan files are edited against: a base commit, two
\* commits on top of it and a merge; the branch points at the merge.
Repo ==
    (Full("ba5e000") :> GitCommit(Full("7ee0001"), <<>>,
        Identity(Ann, Date1), Identity(Ann, Date1), "base\n"))
    @@ (Full("c1c1c1c") :> GitCommit(Full("7ee0001"), <<Full("ba5e000")>>,
        Identity(Ann, Date1), Identity(Bob, Date2), "one\n"))
    @@ (Full("c2c2c2c") :> GitCommit(Full("7ee0002"), <<Full("c1c1c1c")>>,
        Identity(Ann, Date2), Identity(Ann, Date2), "two\n\nbody\n"))
    @@ (Full("c3c3c3c") :> GitCommit(Full("7ee0003"),
        <<Full("c2c2c2c"), Full("c1c1c1c")>>,
        Identity(Bob, Date2), Identity(Bob, Date2), "merge\n"))

RepoHead == Full("c3c3c3c")

\* The three commits above the base as the history extractor writes them.
Keep1 == RescribeCommit("commit:c1c1c1c", <<"ba5e000">>,
            Identity(Ann, Date1), Identity(Bob, Date2), "one")
Keep2 == RescribeCommit("commit:c2c2c2c", <<"previous">>,
            Identity(Ann, Date2), Identity(Ann, Date2), "two\n\nbody")
Keep3 == RescribeCommit("commit:c3c3c3c", <<"previous", "rewritten:c1c1c1c">>,
            Identity(Bob, Date2), Identity(Bob, Date2), "merge")

\* Edits of them, new commits, and descriptors that are wrong in one way.
Reword1 == [Keep1 EXCEPT !.message = "one, reworded"]
Onto1 == [Keep2 EXCEPT !.parents = <<"rewritten:c1c1c1c">>]
NewPrev == RescribeCommit("tree:7ee0002", <<"previous">>,
            Identity(Bob, Date1), Identity(Bob, Date1), "new")
NewOnBase == RescribeCommit("tree:" \o Full("7ee0003"), <<"ba5e000">>,
            Identity(Bob, Date1), Identity(Bob, Date1), "new on base")
NoSuchTree == RescribeCommit("tree:0bad7ee", <<>>,
            Identity(Ann, Date1), Identity(Ann, Date1), "root")
NoSuchRef == RescribeCommit("tree:7ee0001", <<"rewritten:deadbee">>,
            Identity(Ann, Date1), Identity(Ann, Date1), "dangling")
BadIdentity == [NewOnBase EXCEPT !.author.identity = "Ann <ann>"]
BadContent == [NewOnBase EXCEPT !.content = "blob:7ee0003"]
BadParent == [NewOnBase EXCEPT !.parents = <<"ba5e000", "rewritten:c1c1">>]

Descriptors ==
    {Keep1, Keep2, Keep3, Reword1, Onto1, NewPrev, NewOnBase, NoSuchTree,
     NoSuchRef, BadIdentity, BadContent, BadParent}

\* Single edits of one field of a kept commit.
ReAuthor2 == [Keep2 EXCEPT !.author.identity = Bob]
ReAuthorDate2 == [Keep2 EXCEPT !.author.date = Date1]
ReCommitter2 == [Keep2 EXCEPT !.committer.identity = Bob]
ReCommitDate2 == [Keep2 EXCEPT !.committer.date = Date1]
Reparent2 == [Keep2 EXCEPT !.parents = <<"ba5e000">>]
TwoParents2 == [Keep2 EXCEPT !.parents = <<"previous", "ba5e000">>]
FullParent1 == [Keep1 EXCEPT !.parents = <<Full("ba5e000")>>]
Diff2 == [Keep2 EXCEPT !.content = "diff:c2c2c2c"]
Gone == [Keep2 EXCEPT !.content = "commit:dead000"]
SecondPrevious2 == [Keep2 EXCEPT !.parents = <<"ba5e000", "previous">>]

Edits ==
    {ReAuthor2, ReAuthorDate2, ReCommitter2, ReCommitDate2, Reparent2,
     TwoParents2, FullParent1, Diff2, Gone, SecondPrevious2}

\* The longest plan file of the model, and the longest one that draws on
\* the single edits as well.
MaxPlan == 3
MaxEdited == 2

SeqsUpTo(S, n) == UNION {[1..k -> S] : k \in 0..n}

PlanFiles ==
    SeqsUpTo(Descriptors, MaxPlan) \cup SeqsUpTo(Descriptors \cup Edits, MaxEdited)

----------------------------------------------------------------------------
(* State                                                                   *)

VARIABLES
    yaml,            \* the descriptors of the plan file
    mode,            \* "plan": createPlan, then executeRescribe(plan);
                     \* "direct": executeRescribe(yamlPath)
    pc,              \* "start", "plan", "exec", "done", "failed"
    i,               \* the loop index of the running loop (1-based)
    error,           \* the error thrown, "" while there is none
    commitPlans,     \* createPlan: the plan entries pushed so far
    rewrittenMap,    \* the rewrittenMap of the running function
    previousCommit,  \* createPlan and executeRescribe(yamlPath): the cursor
    finalCommit,     \* executeRescribe(plan): the cursor
    updateHead,      \* the updateHead option of executeRescribe
    objects,         \* the commit objects of the store, by name
    branch,          \* the commit the current branch points at
    calls,           \* the accessor calls made, in order
    created,         \* the options of each createCommit call, in order
    resolved,        \* executeRescribe: the parent list of each entry done
    newHashes,       \* executeRescribe: the new hash of each entry done
    base,            \* convertGitGraphToYaml: its argument
    commitHashes,    \* convertGitGraphToYaml: the output of git rev-list
    fetched,         \* convertGitGraphToYaml: the descriptors of the commits
                     \* whose getCommitInfo has completed, by index
    fetchOrder,      \* the indices of those commits, in order of completion
    todoFile,        \* .git/RESCRIBE_TODO.yml: <<its descriptors>>, <<>> if absent
    stateFile,       \* .git/RESCRIBE_STATE: <<its line>>, <<>> if absent
    rebaseDir,       \* whether .git/rebase-merge exists
    command,         \* the command line of the running process, "" for none
    exitCode,        \* the exit code of the process that ended last
    runs             \* the processes that have ended, in order

extractVars == <<base, commitHashes, fetched, fetchOrder>>

cliVars == <<todoFile, stateFile, rebaseDir, command, exitCode, runs>>

vars == <<yaml, mode, pc, i, error, commitPlans, rewrittenMap, previousCommit,
          finalCommit, updateHead, objects, branch, calls, created, resolved,
          newHashes, extractVars, cliVars>>

Call(op, entry, arg, result) ==
    [op |-> op, entry |-> entry, arg |-> arg, result |-> result]

InitRun ==
    /\ i = 0
    /\ error = ""
    /\ commitPlans = <<>>
    /\ rewrittenMap = EmptyMap
    /\ previousCommit = Null
    /\ finalCommit = Null
    /\ updateHead = TRUE
    /\ calls = <<>>
    /\ created = <<>>
    /\ resolved = <<>>
    /\ newHashes = <<>>

\* A file that does not exist, and a file with a content.
Absent == <<>>
File(content) == <<content>>

\* exists(path): Deno.stat succeeds.
exists(file) == file # Absent

\* The name of the branch the repository is on, as the marker file holds it.
RepoBranch == "main"

\* No command of the command line is running and none has run.
NoProcess ==
    /\ rebaseDir = FALSE
    /\ command = ""
    /\ exitCode = 0
    /\ runs = <<>>

\* A plan file a user has written, about to be run one of the two ways.
Init ==
    /\ yaml \in PlanFiles
    /\ mode \in {"plan", "direct"}
    /\ objects = Repo
    /\ branch = RepoHead
    /\ base = ""
    /\ commitHashes = <<>>
    /\ fetched = <<>>
    /\ fetchOrder = <<>>
    /\ todoFile = File(yaml)
    /\ stateFile = File(RepoBranch)
    /\ NoProcess
    /\ pc = "start"
    /\ InitRun

----------------------------------------------------------------------------
(* planner.ts: createPlan                                                  *)

\* The message of the error resolveParents throws: that of the first
\* reference it cannot resolve.
resolveParentsError(parents, previous, map) ==
    LET bad(k) == /\ parents[k] = "previous" \/ StartsWith(parents[k], "rewritten:")
                  /\ Falsy(resolveParent(parents[k], previous, map))
        first == CHOOSE k \in 1..Len(parents) :
                    bad(k) /\ \A j \in 1..(k - 1) : ~bad(j)
    IN  IF parents[first] = "previous"
        THEN "Cannot use 'previous' for first commit"
        ELSE "No rewritten commit found"

\* Mutant of treeCalls: planning writes the tree it resolves as a commit.
treeCallsCreating(objs, k, content) ==
    <<Call("createCommit", k, SplitColon(content)[2], "")>>

\* The getTreeHash call resolveContentStrategy makes for a descriptor.
treeCalls(objs, k, content) ==
    IF SplitColon(content)[1] = "tree" THEN <<>>
    ELSE <<Call("getTreeHash", k, SplitColon(content)[2],
                getTreeHash(objs, SplitColon(content)[2]))>>

\* The getCommitInfo call createPlan makes for a descriptor.
infoCalls(k, content) ==
    IF Falsy(extractOriginalHash(content)) THEN <<>>
    ELSE <<Call("getCommitInfo", k, extractOriginalHash(content), "")>>

\* createPlan up to its loop: the plan file is read, parsed and validated.
createPlanValidate ==
    /\ pc = "start"
    /\ mode = "plan"
    /\ IF RebaseSchema(yaml)
       THEN /\ pc' = "plan"
            /\ i' = 1
            /\ error' = error
       ELSE /\ pc' = "failed"
            /\ i' = i
            /\ error' = "ZodError"
    /\ rewrittenMap' = EmptyMap
    /\ previousCommit' = Null
    /\ commitPlans' = <<>>
    /\ UNCHANGED <<extractVars, cliVars, yaml, mode, finalCommit, updateHead, objects, branch,
                   calls, created, resolved, newHashes>>

\* One iteration of createPlan's loop.
createPlanEntry ==
    /\ pc = "plan"
    /\ i <= Len(yaml)
    /\ LET commit == yaml[i]
       IN  IF resolveParentsThrows(commit.parents, previousCommit, rewrittenMap)
           THEN /\ pc' = "failed"
                /\ error' = resolveParentsError(commit.parents, previousCommit,
                                                rewrittenMap)
                /\ calls' = calls \o treeCalls(objects, i, commit.content)
                /\ UNCHANGED <<i, commitPlans, rewrittenMap, previousCommit>>
           ELSE LET entry == planEntry(objects, commit, previousCommit,
                                       rewrittenMap)
                IN  /\ commitPlans' = Append(commitPlans, entry)
                    /\ rewrittenMap' = nextRewrittenMap(rewrittenMap, entry)
                    /\ previousCommit' = nextPrevious(entry)
                    /\ calls' = calls \o treeCalls(objects, i, commit.content)
                                      \o infoCalls(i, commit.content)
                    /\ i' = i + 1
                    /\ UNCHANGED <<pc, error>>
    /\ UNCHANGED <<extractVars, cliVars, yaml, mode, finalCommit, updateHead, objects, branch,
                   created, resolved, newHashes>>

----------------------------------------------------------------------------
(* executor.ts: executeRescribe(plan, options)                             *)

\* createPlan returns the plan and executeRescribe starts on it.
executeRescribeStart ==
    /\ pc = "plan"
    /\ i > Len(yaml)
    /\ pc' = "exec"
    /\ i' = 1
    /\ updateHead' \in BOOLEAN
    /\ rewrittenMap' = EmptyMap
    /\ finalCommit' = Null
    /\ UNCHANGED <<extractVars, cliVars, yaml, mode, error, commitPlans, previousCommit, objects,
                   branch, calls, created, resolved, newHashes>>

\* Mutant of resolvePending: the placeholders are left in the parent list.
resolvePendingKept(parents, final) == parents

\* Mutant of resolvePending: a placeholder is replaced by null.
resolvePendingNull(parents, final) ==
    [k \in 1..Len(parents) |->
        IF parents[k] = "pending" THEN Null ELSE parents[k]]

\* commitPlan.parents with every "pending" replaced by the cursor.
resolvePending(parents, final) ==
    [k \in 1..Len(parents) |->
        IF parents[k] = "pending" THEN final ELSE parents[k]]

\* Mutant of CommitOptions: only the first parent is passed on.
CommitOptionsFirstParent(tree, parents, commit) ==
    [tree |-> tree,
     parents |-> IF Len(parents) > 1 THEN <<parents[1]>> ELSE parents,
     author |-> commit.author, committer |-> commit.committer,
     message |-> commit.message]

CommitOptions(tree, parents, commit) ==
    [tree |-> tree, parents |-> parents, author |-> commit.author,
     committer |-> commit.committer, message |-> commit.message]

\* Mutant of executeRescribeEntry: the loop does not move on to the next
\* entry.
executeRescribeEntryRepeated ==
    /\ pc = "exec"
    /\ mode = "plan"
    /\ i <= Len(commitPlans)
    /\ finalCommit' = commitPlans[i].tree
    /\ resolved' = Append(resolved, commitPlans[i].parents)
    /\ newHashes' = Append(newHashes, commitPlans[i].tree)
    /\ UNCHANGED <<extractVars, cliVars, yaml, mode, pc, i, error, commitPlans,
                   rewrittenMap, previousCommit, updateHead, objects, branch,
                   calls, created>>

\* One iteration of executeRescribe's loop.
executeRescribeEntry ==
    /\ pc = "exec"
    /\ mode = "plan"
    /\ i <= Len(commitPlans)
    /\ LET commitPlan == commitPlans[i]
           resolvedParents == resolvePending(commitPlan.parents, finalCommit)
           options == CommitOptions(commitPlan.tree, resolvedParents,
                                    commitPlan.commit)
           made == createCommit(objects, options)
           reuse == commitPlan.action = "reuse"
           newHash == IF reuse THEN commitPlan.originalHash ELSE made.hash
       IN  /\ objects' = IF reuse THEN objects ELSE made.objs
           /\ calls' = IF reuse THEN calls
                       ELSE Append(calls, Call("createCommit", i,
                                               commitPlan.tree, newHash))
           /\ created' = IF reuse THEN created ELSE Append(created, options)
           /\ rewrittenMap' = IF ~Falsy(commitPlan.originalHash)
                              THEN MapSet(rewrittenMap, commitPlan.originalHash,
                                          newHash)
                              ELSE rewrittenMap
           /\ finalCommit' = newHash
           /\ resolved' = Append(resolved, resolvedParents)
           /\ newHashes' = Append(newHashes, newHash)
    /\ i' = i + 1
    /\ UNCHANGED <<extractVars, cliVars, yaml, mode, pc, error, commitPlans, previousCommit,
                   updateHead, branch>>

\* After the loop: the branch is moved to the final commit.
executeRescribeFinish ==
    /\ pc = "exec"
    /\ mode = "plan"
    /\ i > Len(commitPlans)
    /\ IF ~Falsy(finalCommit) /\ updateHead
       THEN /\ branch' = updateCurrentBranch(objects, branch, finalCommit)
            /\ calls' = Append(calls, Call("updateCurrentBranch", 0,
                                           finalCommit, ""))
       ELSE UNCHANGED <<branch, calls>>
    /\ pc' = "done"
    /\ UNCHANGED <<extractVars, cliVars, yaml, mode, i, error, commitPlans, rewrittenMap,
                   previousCommit, finalCommit, updateHead, objects, created,
                   resolved, newHashes>>

----------------------------------------------------------------------------
(* executor.ts: executeRescribe(yamlPath, options), which creates every     *)
(* entry without planning                                                  *)

directValidate ==
    /\ pc = "start"
    /\ mode = "direct"
    /\ updateHead' \in BOOLEAN
    /\ IF RebaseSchema(yaml)
       THEN /\ pc' = "exec"
            /\ i' = 1
            /\ error' = error
       ELSE /\ pc' = "failed"
            /\ i' = i
            /\ error' = "ZodError"
    /\ rewrittenMap' = EmptyMap
    /\ previousCommit' = Null
    /\ UNCHANGED <<extractVars, cliVars, yaml, mode, commitPlans, finalCommit, objects, branch,
                   calls, created, resolved, newHashes>>

\* The git rev-parse call this resolveContentStrategy makes.
revParseCalls(objs, k, content) ==
    IF SplitColon(content)[1] = "tree" THEN <<>>
    ELSE <<Call("rev-parse", k, SplitColon(content)[2],
                getTreeHash(objs, SplitColon(content)[2]))>>

directEntry ==
    /\ pc = "exec"
    /\ mode = "direct"
    /\ i <= Len(yaml)
    /\ LET commit == yaml[i]
           tree == resolveContentStrategy(objects, commit.content)
       IN  IF resolveParentsThrows(commit.parents, previousCommit, rewrittenMap)
           THEN /\ pc' = "failed"
                /\ error' = resolveParentsError(commit.parents, previousCommit,
                                                rewrittenMap)
                /\ calls' = calls \o revParseCalls(objects, i, commit.content)
                /\ UNCHANGED <<i, rewrittenMap, previousCommit, objects,
                               created, resolved, newHashes>>
           ELSE LET parents == resolveParents(commit.parents, previousCommit,
                                              rewrittenMap)
                    options == CommitOptions(tree, parents, commit)
                    made == createCommit(objects, options)
                    originalHash == extractOriginalHash(commit.content)
                IN  /\ objects' = made.objs
                    /\ calls' = calls \o revParseCalls(objects, i, commit.content)
                                  \o <<Call("createCommit", i, tree, made.hash)>>
                    /\ created' = Append(created, options)
                    /\ rewrittenMap' = IF ~Falsy(originalHash)
                                       THEN MapSet(rewrittenMap, originalHash,
                                                   made.hash)
                                       ELSE rewrittenMap
                    /\ previousCommit' = made.hash
                    /\ resolved' = Append(resolved, parents)
                    /\ newHashes' = Append(newHashes, made.hash)
                    /\ i' = i + 1
                    /\ UNCHANGED <<pc, error>>
    /\ UNCHANGED <<extractVars, cliVars, yaml, mode, commitPlans, finalCommit, updateHead, branch>>

directFinish ==
    /\ pc = "exec"
    /\ mode = "direct"
    /\ i > Len(yaml)
    /\ IF ~Falsy(previousCommit) /\ updateHead
       THEN /\ branch' = updateCurrentBranch(objects, branch, previousCommit)
            /\ calls' = Append(calls, Call("updateCurrentBranch", 0,
                                           previousCommit, ""))
       ELSE UNCHANGED <<branch, calls>>
    /\ pc' = "done"
    /\ UNCHANGED <<extractVars, cliVars, yaml, mode, i, error, commitPlans, rewrittenMap,
                   previousCommit, finalCommit, updateHead, objects, created,
                   resolved, newHashes>>

----------------------------------------------------------------------------

Next ==
    \/ createPlanValidate
    \/ createPlanEntry
    \/ executeRescribeStart
    \/ executeRescribeEntry
    \/ executeRescribeFinish
    \/ directValidate
    \/ directEntry
    \/ directFinish

Spec == Init /\ [][Next]_vars

----------------------------------------------------------------------------
(* converter.ts: convertGitGraphToYaml, the history extractor              *)

\* The length of the hashes the extractor writes.
ShortLen == 7

\* The commits reachable from the commits in S.
RECURSIVE Reachable(_, _)
Reachable(objs, S) ==
    LET step == S \cup UNION {{objs[h].parents[k] : k \in 1..Len(objs[h].parents)}
                              : h \in S}
    IN  IF step = S THEN S ELSE Reachable(objs, step)

\* The commits git rev-list lists: those reachable from HEAD for --root,
\* those reachable from HEAD and not from the base for base..HEAD.  When git
\* cannot resolve the base it lists nothing, and its exit code is not looked
\* at.
RevListRange(objs, head, from) ==
    IF from = "--root" THEN Reachable(objs, {head})
    ELSE IF ResolveName(DOMAIN objs, from) = Null THEN {}
    ELSE Reachable(objs, {head})
            \ Reachable(objs, {ResolveName(DOMAIN objs, from)})

\* git rev-list --topo-order --reverse: the orders of the range in which
\* every commit comes after its parents.
TopoOrders(objs, range) ==
    {order \in [1..Cardinality(range) -> range] :
        /\ \A a, b \in 1..Cardinality(range) : a # b => order[a] # order[b]
        /\ \A a, b \in 1..Cardinality(range) :
              (\E k \in 1..Len(objs[order[a]].parents) :
                    objs[order[a]].parents[k] = order[b]) => b < a}

\* commitIndexMap.get(hash): the index of a commit in the list, 0 for
\* undefined.
commitIndex(hashes, hash) ==
    IF \E k \in 1..Len(hashes) : hashes[k] = hash
    THEN CHOOSE k \in 1..Len(hashes) : hashes[k] = hash
    ELSE 0

\* Mutant of parentRef: any parent that is the commit before is written as
\* `previous`.
parentRefAnyPrevious(hashes, index, parentHash, firstParent) ==
    IF commitIndex(hashes, parentHash) # 0
       /\ commitIndex(hashes, parentHash) = index - 1
    THEN "previous"
    ELSE IF commitIndex(hashes, parentHash) # 0
         THEN "rewritten:" \o Prefix(parentHash, ShortLen)
         ELSE Prefix(parentHash, ShortLen)

\* Mutant of parentRef: a parent outside the range is written as a
\* `rewritten:` reference too.
parentRefAlwaysRewritten(hashes, index, parentHash, firstParent) ==
    IF firstParent /\ commitIndex(hashes, parentHash) # 0
                   /\ commitIndex(hashes, parentHash) = index - 1
    THEN "previous"
    ELSE "rewritten:" \o Prefix(parentHash, ShortLen)

\* The reference the extractor writes for one parent; firstParent says
\* whether the parent may be written as `previous`.
parentRef(hashes, index, parentHash, firstParent) ==
    IF firstParent /\ commitIndex(hashes, parentHash) # 0
                   /\ commitIndex(hashes, parentHash) = index - 1
    THEN "previous"
    ELSE IF commitIndex(hashes, parentHash) # 0
         THEN "rewritten:" \o Prefix(parentHash, ShortLen)
         ELSE Prefix(parentHash, ShortLen)

\* The parent references of the commit at `index`: none for a root commit,
\* one for a single parent, one per parent for a merge.
parentRefs(hashes, index, info) ==
    IF Len(info.parents) = 0 THEN <<>>
    ELSE IF Len(info.parents) = 1
         THEN <<parentRef(hashes, index, info.parents[1], TRUE)>>
         ELSE [k \in 1..Len(info.parents) |->
                 parentRef(hashes, index, info.parents[k], k = 1)]

\* The descriptor the extractor builds for the commit at `index`.
rescribeCommit(objs, hashes, index) ==
    LET info == getCommitInfo(objs, hashes[index])
    IN  [author |-> [date |-> info.authorDate,
                     identity |-> Interpolate(info.authorName) \o " <"
                                  \o Interpolate(info.authorEmail) \o ">"],
         committer |-> [date |-> info.committerDate,
                        identity |-> Interpolate(info.committerName) \o " <"
                                     \o Interpolate(info.committerEmail) \o ">"],
         content |-> "commit:" \o Prefix(hashes[index], ShortLen),
         message |-> info.message,
         parents |-> parentRefs(hashes, index, info)]

\* git rev-list has listed the commits; the getCommitInfo calls start.
extractRevList ==
    /\ pc = "extract"
    /\ commitHashes' \in TopoOrders(objects, RevListRange(objects, branch, base))
    /\ fetched' = <<>>
    /\ fetchOrder' = <<>>
    /\ pc' = "fetch"
    /\ UNCHANGED <<cliVars, base, yaml, mode, i, error, commitPlans, rewrittenMap,
                   previousCommit, finalCommit, updateHead, objects, branch,
                   calls, created, resolved, newHashes>>

\* The getCommitInfo of one commit completes, in any order, and its
\* descriptor is built.
extractFetch ==
    /\ pc = "fetch"
    /\ \E index \in (1..Len(commitHashes)) \ DOMAIN fetched :
          /\ fetched' = (index :> rescribeCommit(objects, commitHashes, index))
                            @@ fetched
          /\ fetchOrder' = Append(fetchOrder, index)
    /\ UNCHANGED <<cliVars, base, commitHashes, yaml, mode, pc, i, error, commitPlans,
                   rewrittenMap, previousCommit, finalCommit, updateHead,
                   objects, branch, calls, created, resolved, newHashes>>

\* Mutant of yamlCommits: the descriptors in the order their fetches
\* completed.
yamlCommitsAsCompleted(hashes, done, order) ==
    [k \in 1..Len(hashes) |-> done[order[k]]]

\* The array Promise.all resolves to: the descriptor of each commit at the
\* index of the commit, whatever the order of completion.
yamlCommits(hashes, done, order) ==
    [k \in 1..Len(hashes) |-> done[k]]

\* Promise.all resolves: the descriptors, in the order of the commit list,
\* become the plan file.  (The YAML text they are written as and parsed
\* from is outside the model: the plan file is its descriptors.)
extractEmit ==
    /\ pc = "fetch"
    /\ DOMAIN fetched = 1..Len(commitHashes)
    /\ yaml' = yamlCommits(commitHashes, fetched, fetchOrder)
    /\ pc' = "start"
    /\ UNCHANGED <<extractVars, cliVars, mode, i, error, commitPlans, rewrittenMap,
                   previousCommit, finalCommit, updateHead, objects, branch,
                   calls, created, resolved, newHashes>>

\* The commit graphs of the model: commit k has no parent, one earlier
\* commit or two different earlier commits as parents.
MaxCommits == 3

\* The names of the commits of a graph.  Under "distinct" no two names start
\* with the same seven digits; under "shared" the names of all commits but
\* the first do, as the names of two objects of a large repository may.
Namings == {"distinct", "shared"}

GraphName(naming, k) ==
    IF naming = "shared" /\ k > 1
    THEN "a000002" \o Digit(k) \o "00000000000000000000000000000000"
    ELSE Full("a00000" \o Digit(k))

\* The parents commit k may have, as indices of earlier commits.
ParentChoices(k) ==
    {<<>>} \cup {<<a>> : a \in 1..(k - 1)}
           \cup {pair \in (1..(k - 1)) \X (1..(k - 1)) : pair[1] # pair[2]}

Graphs == UNION {[1..n -> UNION {ParentChoices(k) : k \in 1..n}] : n \in 1..MaxCommits}

\* The identity git has recorded as author of the first commit: one the
\* identity pattern of the schema matches, or one with a bare user name as
\* e-mail address, which git accepts as well.
FirstAuthors == {Ann, "Ann <ann>"}

\* The store of a graph: commit k has the parents `graph` gives it.
GraphStore(graph, firstAuthor, naming) ==
    [h \in {GraphName(naming, k) : k \in 1..Len(graph)} |->
        LET k == CHOOSE n \in 1..Len(graph) : GraphName(naming, n) = h
        IN  GitCommit(Full("7ee000" \o Digit(((k - 1) % 3) + 1)),
                      [p \in 1..Len(graph[k]) |->
                          GraphName(naming, graph[k][p])],
                      Identity(IF k = 1 THEN firstAuthor
                               ELSE IF k % 2 = 0 THEN Bob ELSE Ann, Date1),
                      Identity(IF k % 2 = 0 THEN Ann ELSE Bob, Date2),
                      "commit " \o Digit(k) \o "\n")]

\* A repository with one of the graphs, its branch at the last commit, and
\* the extractor about to run for a base: a commit or the whole history.
InitExtract ==
    /\ \E graph \in Graphs, firstAuthor \in FirstAuthors, naming \in Namings :
          /\ \A k \in 1..Len(graph) : graph[k] \in ParentChoices(k)
          /\ objects = GraphStore(graph, firstAuthor, naming)
          /\ branch = GraphName(naming, Len(graph))
    /\ base \in {"--root"} \cup {Prefix(h, ShortLen) : h \in DOMAIN objects}
    /\ commitHashes = <<>>
    /\ fetched = <<>>
    /\ fetchOrder = <<>>
    /\ todoFile = Absent
    /\ stateFile = Absent
    /\ NoProcess
    /\ yaml = <<>>
    /\ mode = "plan"
    /\ pc = "extract"
    /\ InitRun

NextExtract ==
    \/ extractRevList
    \/ extractFetch
    \/ extractEmit
    \/ createPlanValidate
    \/ createPlanEntry
    \/ executeRescribeStart
    \/ executeRescribeEntry
    \/ executeRescribeFinish

SpecExtract == InitExtract /\ [][NextExtract]_vars

----------------------------------------------------------------------------
(* cli.ts: the commands of the command line, one process after another      *)

\* The most processes the model runs one after another.
MaxRuns == 4

\* What a process finds and leaves: the state files, the directory of a git
\* rebase in progress, the object store and the branch.
Disk(todo, state, dir, objs, br) ==
    [todo |-> todo, state |-> state, dir |-> dir, objects |-> objs,
     branch |-> br]

\* A process: its command, what it found, what it left, its exit code, the
\* file operations of it that failed, and whether it has ended.
Run(name, before, after, exit, failed, done) ==
    [name |-> name, before |-> before, after |-> after, exit |-> exit,
     failed |-> failed, done |-> done]

\* Mutant of exitOf: a process ends with exit code 0 whatever happened.
exitOfAlwaysZero(thrown) == 0

\* The exit code of a process of main: 1 when the command has thrown or
\* called Deno.exit(1), 0 when it has returned.
exitOf(thrown) == IF thrown THEN 1 ELSE 0

\* Mutant of removeStateFiles: each call removes one file, the plan file
\* first.
removeStateFilesOneEach(todo, state) ==
    IF exists(todo)
    THEN [todo |-> Absent, state |-> state, failed |-> {}]
    ELSE IF exists(state)
         THEN [todo |-> todo, state |-> Absent, failed |-> {}]
         ELSE [todo |-> todo, state |-> state,
               failed |-> {"remove RESCRIBE_TODO"}]

\* Mutant of removeStateFiles: only the plan file is removed.
removeStateFilesTodoOnly(todo, state) ==
    IF ~exists(todo)
    THEN [todo |-> todo, state |-> state, failed |-> {"remove RESCRIBE_TODO"}]
    ELSE [todo |-> Absent, state |-> state, failed |-> {}]

\* try { Deno.remove(RESCRIBE_TODO); Deno.remove(RESCRIBE_STATE) } catch {}:
\* the first removal that fails ends the block.
removeStateFiles(todo, state) ==
    IF ~exists(todo)
    THEN [todo |-> todo, state |-> state, failed |-> {"remove RESCRIBE_TODO"}]
    ELSE IF ~exists(state)
         THEN [todo |-> Absent, state |-> state,
               failed |-> {"remove RESCRIBE_STATE"}]
         ELSE [todo |-> Absent, state |-> Absent, failed |-> {}]

\* A process starts with fresh variables; err is the error it has thrown
\* already, if any.
ResetRun(err) ==
    /\ i' = 0
    /\ error' = err
    /\ commitPlans' = <<>>
    /\ rewrittenMap' = EmptyMap
    /\ previousCommit' = Null
    /\ finalCommit' = Null
    /\ updateHead' = TRUE
    /\ calls' = <<>>
    /\ created' = <<>>
    /\ resolved' = <<>>
    /\ newHashes' = <<>>

\* The running process ends: the last entry of runs gets what it left.
EndRun(after, exit, failed) ==
    /\ runs' = [runs EXCEPT ![Len(runs)] =
                    Run(@.name, @.before, after, exit, failed, TRUE)]
    /\ exitCode' = exit
    /\ command' = ""

\* No process is running and another may be started.
Idle == command = "" /\ Len(runs) < MaxRuns

\* The bases given to git-rescribe: the whole history, a commit, and a name
\* git does not know.
Bases == {"--root", "c1c1c1c", "nonesuch"}

\* validateBase: --root, or a name git rev-parse --verify resolves.
validateBase(objs, from) ==
    from = "--root" \/ ResolveName(DOMAIN objs, from) # Null

\* The commits git lists as `pick` lines in git-rebase-todo.backup: those of
\* the range that are not merges, oldest first.
TodoPicks(objs, head, from) ==
    LET pick(h) == Len(objs[h].parents) <= 1
    IN  {SelectSeq(order, pick) :
            order \in TopoOrders(objs, RevListRange(objs, head, from))}

\* convertGitTodoToYaml: the descriptors of the picked commits.  The first
\* keeps its parents, cut to 7 digits; every other has `previous`.
convertGitTodoToYaml(objs, picks) ==
    [index \in 1..Len(picks) |->
        LET info == getCommitInfo(objs, picks[index])
            parents == [k \in 1..Len(info.parents) |->
                          Prefix(info.parents[k], ShortLen)]
        IN  [author |-> [date |-> info.authorDate,
                         identity |-> Interpolate(info.authorName) \o " <"
                                      \o Interpolate(info.authorEmail) \o ">"],
             committer |-> [date |-> info.committerDate,
                            identity |-> Interpolate(info.committerName) \o " <"
                                         \o Interpolate(info.committerEmail)
                                         \o ">"],
             content |-> "tree:" \o info.tree,
             message |-> info.message,
             parents |-> IF Len(parents) = 0 THEN <<>>
                         ELSE IF index = 1 THEN parents
                         ELSE <<"previous">>]]

\* What the user may leave in the plan file when the editor closes: the
\* plan as written, or a plan of their own.
EditorPlans(written) ==
    {written, <<NewOnBase, NoSuchRef>>, <<BadContent>>}

\* startRebase: refuses when a git rebase is in progress or the base is not
\* valid; otherwise git rebase -i starts, makes its directory and calls the
\* sequence editor.
startRebase ==
    /\ Idle
    /\ \E from \in Bases :
          /\ base' = from
          /\ IF rebaseDir
             THEN /\ ResetRun("Rebase already in progress")
                  /\ runs' = Append(runs,
                        Run("start", Disk(todoFile, stateFile, rebaseDir, objects, branch),
                            Disk(todoFile, stateFile, rebaseDir, objects, branch),
                            exitOf(TRUE), {}, TRUE))
                  /\ exitCode' = exitOf(TRUE)
                  /\ UNCHANGED <<command, rebaseDir, pc>>
             ELSE IF ~validateBase(objects, from)
             THEN /\ ResetRun("")
                  /\ runs' = Append(runs,
                        Run("start", Disk(todoFile, stateFile, rebaseDir, objects, branch),
                            Disk(todoFile, stateFile, rebaseDir, objects, branch),
                            exitOf(TRUE), {}, TRUE))
                  /\ exitCode' = exitOf(TRUE)
                  /\ UNCHANGED <<command, rebaseDir, pc>>
             ELSE /\ ResetRun("")
                  /\ runs' = Append(runs,
                        Run("start", Disk(todoFile, stateFile, rebaseDir, objects, branch),
                            Disk(todoFile, stateFile, rebaseDir, objects, branch),
                            0, {}, FALSE))
                  /\ command' = "start"
                  /\ rebaseDir' = TRUE
                  /\ pc' = "editor"
                  /\ UNCHANGED exitCode
    /\ UNCHANGED <<commitHashes, fetched, fetchOrder, yaml, mode, objects,
                   branch, todoFile, stateFile>>

\* editorMode, run by git as its sequence editor: the plan file is written,
\* the editor runs, the marker file is written, and the process exits with
\* code 1; it may fail before the plan file is written or when the editor
\* does.  Either way git gives up the rebase and removes its directory, and
\* startRebase, which ignores git's exit code, returns.
editorMode ==
    /\ command = "start"
    /\ pc = "editor"
    /\ \E picks \in TodoPicks(objects, branch, base),
          outcome \in {"no todo", "editor failed", "saved"} :
          \E plan \in EditorPlans(convertGitTodoToYaml(objects, picks)) :
             /\ todoFile' = IF outcome = "no todo" THEN todoFile ELSE File(plan)
             /\ stateFile' = IF outcome = "saved" THEN File(RepoBranch)
                              ELSE stateFile
             /\ rebaseDir' = FALSE
             /\ EndRun(Disk(todoFile', stateFile', FALSE, objects, branch),
                       exitOf(FALSE),
                       IF outcome = "no todo" THEN {"read git-rebase-todo.backup"}
                       ELSE IF outcome = "editor failed" THEN {"editor"}
                       ELSE {})
    /\ pc' = "idle"
    /\ UNCHANGED <<extractVars, yaml, mode, i, error, commitPlans, rewrittenMap,
                   previousCommit, finalCommit, updateHead, objects, branch,
                   calls, created, resolved, newHashes>>

\* continueRebase up to executeRescribe: it throws when there is no plan
\* file, and otherwise runs executeRescribe(RESCRIBE_TODO).
continueRebase ==
    /\ Idle
    /\ IF ~exists(todoFile)
       THEN /\ ResetRun("No rescribe in progress")
            /\ runs' = Append(runs,
                  Run("continue", Disk(todoFile, stateFile, rebaseDir, objects, branch),
                      Disk(todoFile, stateFile, rebaseDir, objects, branch),
                      exitOf(TRUE), {}, TRUE))
            /\ exitCode' = exitOf(TRUE)
            /\ UNCHANGED <<command, yaml, mode, pc>>
       ELSE /\ ResetRun("")
            /\ runs' = Append(runs,
                  Run("continue", Disk(todoFile, stateFile, rebaseDir, objects, branch),
                      Disk(todoFile, stateFile, rebaseDir, objects, branch),
                      0, {}, FALSE))
            /\ command' = "continue"
            /\ yaml' = todoFile[1]
            /\ mode' = "direct"
            /\ pc' = "start"
            /\ UNCHANGED exitCode
    /\ UNCHANGED <<extractVars, objects, branch, todoFile, stateFile, rebaseDir>>

\* executeRescribe(RESCRIBE_TODO) as continueRebase calls it: without
\* options, so that updateHead is true.
continueValidate == directValidate /\ updateHead' = TRUE

\* continueRebase after executeRescribe has returned: the state files are
\* removed.
continueCleanUp ==
    /\ command = "continue"
    /\ pc = "done"
    /\ LET r == removeStateFiles(todoFile, stateFile)
       IN  /\ todoFile' = r.todo
           /\ stateFile' = r.state
           /\ EndRun(Disk(r.todo, r.state, rebaseDir, objects, branch),
                     exitOf(FALSE), r.failed)
    /\ pc' = "idle"
    /\ UNCHANGED <<extractVars, rebaseDir, yaml, mode, i, error, commitPlans,
                   rewrittenMap, previousCommit, finalCommit, updateHead,
                   objects, branch, calls, created, resolved, newHashes>>

\* Mutant of continueFailed: the state files are removed after a failed
\* execution as they are after a successful one.
continueFailedCleaning ==
    /\ command = "continue"
    /\ pc = "failed"
    /\ LET r == removeStateFiles(todoFile, stateFile)
       IN  /\ todoFile' = r.todo
           /\ stateFile' = r.state
           /\ EndRun(Disk(r.todo, r.state, rebaseDir, objects, branch),
                     exitOf(TRUE), r.failed)
    /\ pc' = "idle"
    /\ UNCHANGED <<extractVars, rebaseDir, yaml, mode, i, error, commitPlans,
                   rewrittenMap, previousCommit, finalCommit, updateHead,
                   objects, branch, calls, created, resolved, newHashes>>

\* executeRescribe has thrown: continueRebase does not catch it and the
\* process ends with the error.
continueFailed ==
    /\ command = "continue"
    /\ pc = "failed"
    /\ EndRun(Disk(todoFile, stateFile, rebaseDir, objects, branch),
              exitOf(TRUE), {})
    /\ pc' = "idle"
    /\ UNCHANGED <<extractVars, todoFile, stateFile, rebaseDir, yaml, mode, i,
                   error, commitPlans, rewrittenMap, previousCommit,
                   finalCommit, updateHead, objects, branch, calls, created,
                   resolved, newHashes>>

\* abortRebase: the state files are removed, a failure to remove is only
\* logged, and a git rebase in progress is aborted; the process ends
\* normally.
abortRebase ==
    /\ Idle
    /\ LET r == removeStateFiles(todoFile, stateFile)
       IN  /\ todoFile' = r.todo
           /\ stateFile' = r.state
           /\ rebaseDir' = FALSE
           /\ runs' = Append(runs,
                 Run("abort", Disk(todoFile, stateFile, rebaseDir, objects, branch),
                     Disk(r.todo, r.state, FALSE, objects, branch),
                     exitOf(FALSE), r.failed, TRUE))
    /\ ResetRun("")
    /\ exitCode' = exitOf(FALSE)
    /\ UNCHANGED <<extractVars, command, yaml, mode, pc, objects, branch>>

\* A repository with no rescribe in progress, with or without a git rebase
\* of the user's in progress.
InitCli ==
    /\ yaml = <<>>
    /\ mode = "direct"
    /\ pc = "idle"
    /\ objects = Repo
    /\ branch = RepoHead
    /\ base = ""
    /\ commitHashes = <<>>
    /\ fetched = <<>>
    /\ fetchOrder = <<>>
    /\ todoFile = Absent
    /\ stateFile = Absent
    /\ rebaseDir \in BOOLEAN
    /\ command = ""
    /\ exitCode = 0
    /\ runs = <<>>
    /\ InitRun

NextCli ==
    \/ startRebase
    \/ editorMode
    \/ continueRebase
    \/ continueValidate
    \/ directEntry
    \/ directFinish
    \/ continueCleanUp
    \/ continueFailed
    \/ abortRebase

SpecCli == InitCli /\ [][NextCli]_vars

----------------------------------------------------------------------------
(* Properties of the planned pipeline: createPlan, then executeRescribe    *)

Ended == pc \in {"done", "failed"}

\* The entries executeRescribe has processed so far.
Processed == 1..Len(newHashes)

\* The createCommit calls made so far, as positions of the call log.
CreateCalls == {c \in 1..Len(calls) : calls[c].op = "createCommit"}

BranchCalls == {c \in 1..Len(calls) : calls[c].op = "updateCurrentBranch"}

\* A createCommit call that failed: git wrote no commit name.
FailedCreate(c) == calls[c].op = "createCommit" /\ calls[c].result = ""

\* The hash the rewritten: reference names, "" for another reference.
RewrittenTarget(parent) ==
    IF StartsWith(parent, "rewritten:")
    THEN Substring(parent, Len("rewritten:")) ELSE ""

\* The last entry before entry k whose content names the commit h.
EarlierEntryOf(k, h) ==
    IF \E j \in 1..(k - 1) : extractOriginalHash(yaml[j].content) = h
    THEN CHOOSE j \in 1..(k - 1) :
            /\ extractOriginalHash(yaml[j].content) = h
            /\ \A m \in (j + 1)..(k - 1) :
                  extractOriginalHash(yaml[m].content) # h
    ELSE 0

\* C1: in the planned pipeline, a parent declared `rewritten:h` of an entry
\* that is created is handed to createCommit as the new hash of the earlier
\* entry whose original hash is h, whether that entry was reused or created
\* and whatever lies between the two.
C1_RewrittenIsNewHashOfTarget ==
    mode = "plan" =>
        \A k \in Processed : \A p \in 1..Len(yaml[k].parents) :
            (/\ commitPlans[k].action = "create"
             /\ StartsWith(yaml[k].parents[p], "rewritten:"))
            => resolved[k][p] =
                 newHashes[EarlierEntryOf(k, RewrittenTarget(yaml[k].parents[p]))]

\* The hash createCommit returned for entry k.
CreatedHash(k) ==
    calls[CHOOSE c \in CreateCalls : calls[c].entry = k].result

\* C2: in the planned pipeline, a parent declared `previous` of an entry
\* other than the first ends up as the new hash of the entry just before
\* it: that entry's original hash if it was reused, the hash createCommit
\* returned if it was created.
C2_PreviousIsNewHashOfPredecessor ==
    mode = "plan" =>
        \A k \in Processed : \A p \in 1..Len(yaml[k].parents) :
            (k > 1 /\ yaml[k].parents[p] = "previous")
            => /\ resolved[k][p] = newHashes[k - 1]
               /\ newHashes[k - 1] =
                    IF commitPlans[k - 1].action = "reuse"
                    THEN commitPlans[k - 1].originalHash
                    ELSE CreatedHash(k - 1)

\* A finished run in which one `previous` follows a reused entry and
\* another follows a created one.
C2_Witness ==
    /\ mode = "plan"
    /\ pc = "done"
    /\ \E k \in 2..Len(yaml) :
          /\ yaml[k].parents = <<"previous">>
          /\ commitPlans[k - 1].action = "reuse"
          /\ resolved[k] = <<commitPlans[k - 1].originalHash>>
    /\ \E k \in 2..Len(yaml) :
          /\ yaml[k].parents = <<"previous">>
          /\ commitPlans[k - 1].action = "create"
          /\ resolved[k] = <<CreatedHash(k - 1)>>
          /\ CreatedHash(k - 1) # ""

\* The commit object the content of descriptor d names, Null when it names
\* a tree or a commit the repository does not have.
OriginalOf(d) ==
    IF Falsy(extractOriginalHash(d.content)) THEN Null
    ELSE ResolveName(DOMAIN Repo, extractOriginalHash(d.content))

\* Plan entry e differs from the commit object named orig in its tree, its
\* parent sequence, an identity, a date or the message.
DiffersFrom(e, orig) ==
    \/ Repo[orig].tree # e.tree
    \/ Len(Repo[orig].parents) # Len(e.parents)
    \/ \E j \in 1..Len(e.parents) :
          ~StartsWith(Repo[orig].parents[j], e.parents[j])
    \/ Repo[orig].authorName \o " <" \o Repo[orig].authorEmail \o ">"
          # e.commit.author.identity
    \/ Repo[orig].authorDate # e.commit.author.date
    \/ Repo[orig].committerName \o " <" \o Repo[orig].committerEmail \o ">"
          # e.commit.committer.identity
    \/ Repo[orig].committerDate # e.commit.committer.date
    \/ Trim(Repo[orig].message) # e.commit.message

\* C5: every plan entry is classified create exactly when it has no
\* original commit or differs from it in tree, parent sequence, author
\* identity or date, committer identity or date, or message; it is
\* classified reuse otherwise.
C5_CreateIffDiffers ==
    \A k \in 1..Len(commitPlans) :
        LET e == commitPlans[k]
            orig == OriginalOf(e.commit)
        IN  /\ e.action \in {"create", "reuse"}
            /\ e.action = "create" <=> (orig = Null \/ DiffersFrom(e, orig))

\* Descriptor d is in the plan with exactly these changes listed.
PlannedWith(d, reasons) ==
    \E k \in 1..Len(commitPlans) :
        /\ commitPlans[k].commit = d
        /\ commitPlans[k].changes = reasons
        /\ commitPlans[k].action = IF reasons = <<>> THEN "reuse" ELSE "create"

\* A plan whose first entry is reused, its parent given in full, and whose
\* second entry is created for an edited committer date alone.
C5_Witness ==
    /\ mode = "plan"
    /\ pc = "done"
    /\ yaml = <<FullParent1, ReCommitDate2>>
    /\ PlannedWith(FullParent1, <<>>)
    /\ PlannedWith(ReCommitDate2, <<"committer date">>)

\* C6: in every plan, an entry is classified reuse exactly when its list of
\* changes is empty and it has an original hash.
C6_ReuseIffNoChanges ==
    \A k \in 1..Len(commitPlans) :
        commitPlans[k].action = "reuse"
            <=> (/\ Len(commitPlans[k].changes) = 0
                 /\ ~Falsy(commitPlans[k].originalHash))

\* A returned plan with a reused entry, an edited entry and a new commit.
C6_Witness ==
    /\ pc = "exec"
    /\ mode = "plan"
    /\ Len(commitPlans) = 3
    /\ \E k \in 1..3 : commitPlans[k].action = "reuse"
    /\ \E k \in 1..3 : /\ commitPlans[k].action = "create"
                       /\ ~Falsy(commitPlans[k].originalHash)
    /\ \E k \in 1..3 : /\ commitPlans[k].action = "create"
                       /\ Falsy(commitPlans[k].originalHash)

\* C7: when a createCommit call of a plan's execution fails, the branch is
\* not moved in that run: updateCurrentBranch is not called.
C7_NoBranchMoveAfterFailure ==
    mode = "plan" =>
        ((\E c \in CreateCalls : FailedCreate(c)) => BranchCalls = {})

\* C8: after a createCommit call fails, the run makes no further call: no
\* later entry is processed and no further commit is created.
C8_AbortsAtFirstFailure ==
    mode = "plan" =>
        \A c \in CreateCalls :
            FailedCreate(c) => /\ c = Len(calls)
                               /\ Len(newHashes) <= calls[c].entry

\* Entry k has a parent reference that cannot be resolved: `previous` in the
\* first entry, or `rewritten:h` with no earlier entry of original hash h.
Unresolvable(k) ==
    \E p \in 1..Len(yaml[k].parents) :
        \/ k = 1 /\ yaml[k].parents[p] = "previous"
        \/ /\ StartsWith(yaml[k].parents[p], "rewritten:")
           /\ EarlierEntryOf(k, RewrittenTarget(yaml[k].parents[p])) = 0

\* C9: a plan file with an unresolvable parent reference makes the run fail
\* with an error, with no commit created and the branch not moved, wherever
\* the entry with the reference stands.
C9_BadReferenceCreatesNothing ==
    (Ended /\ \E k \in 1..Len(yaml) : Unresolvable(k))
        => /\ pc = "failed"
           /\ error # ""
           /\ CreateCalls = {}
           /\ objects = Repo
           /\ branch = RepoHead

\* C10: the whole plan file is validated before any entry is processed: when
\* a descriptor violates the schema, no tree is resolved, no commit
\* information is fetched, no commit is created and the branch is not moved.
C10_ValidationBeforeProcessing ==
    (\E k \in 1..Len(yaml) : ~CommitSchema(yaml[k]))
        => /\ calls = <<>>
           /\ commitPlans = <<>>
           /\ created = <<>>
           /\ objects = Repo
           /\ branch = RepoHead
           /\ pc \in {"start", "failed"}

\* A run that failed validation on the last descriptor of a plan file whose
\* earlier descriptors are valid and would have been processed.
C10_Witness ==
    /\ pc = "failed"
    /\ error = "ZodError"
    /\ Len(yaml) = 3
    /\ CommitSchema(yaml[1]) /\ yaml[1].content = "commit:c1c1c1c"
    /\ CommitSchema(yaml[2])
    /\ ~IdentitySchema(yaml[3].author)

----------------------------------------------------------------------------
(* Properties of planning and executing what the extractor wrote           *)

\* The hash the extractor writes for the commit at index k of the list.
ShortHash(k) == Prefix(commitHashes[k], ShortLen)

\* C3: when the descriptors the extractor wrote go to the planner as they
\* are, every plan entry is classified reuse with no changes, whatever the
\* graph and the base; the execution that follows creates no commit and
\* ends with the original hash of the last commit as its final commit.  A
\* run fails only in validation, on an identity git accepted that the
\* identity pattern does not match.
C3_UnmodifiedPlanIsReused ==
    /\ \A k \in 1..Len(commitPlans) :
          /\ commitPlans[k].action = "reuse"
          /\ commitPlans[k].changes = <<>>
          /\ commitPlans[k].originalHash = ShortHash(k)
    /\ CreateCalls = {}
    /\ created = <<>>
    /\ \A k \in 1..Len(newHashes) : newHashes[k] = ShortHash(k)
    /\ pc = "done" =>
          /\ Len(newHashes) = Len(commitHashes)
          /\ Len(commitHashes) > 0 =>
                /\ finalCommit = ShortHash(Len(commitHashes))
                /\ StartsWith(branch, finalCommit)
    /\ pc = "failed" =>
          /\ error = "ZodError"
          /\ \E k \in 1..Len(yaml) : ~IdentitySchema(yaml[k].author)

\* createPlan has processed every descriptor and is about to return.
Planned == pc = "plan" /\ i > Len(yaml)

\* C4 as stated: after the planner has processed the unmodified plan, the
\* replacement mapping it built is empty.
C4_MappingIsEmpty == Planned => rewrittenMap = EmptyMap

\* C4, amended: after the planner has processed the unmodified plan, the
\* replacement mapping it built has exactly the original hashes of the plan
\* as keys and replaces no commit by another: it maps the hash of every
\* entry classified reuse to that same hash, and any other hash to the
\* placeholder `pending`.
C4_MappingIsIdentity ==
    Planned =>
        /\ DOMAIN rewrittenMap = {ShortHash(k) : k \in 1..Len(commitHashes)}
        /\ \A h \in DOMAIN rewrittenMap : rewrittenMap[h] \in {h, "pending"}
        /\ \A k \in 1..Len(commitPlans) :
              commitPlans[k].action = "reuse"
                  => rewrittenMap[ShortHash(k)] = ShortHash(k)

\* The planner has processed the plan of three commits, all of them reused
\* and each mapped to itself.
C4_Witness ==
    /\ Planned
    /\ Len(commitHashes) = 3
    /\ Cardinality(DOMAIN rewrittenMap) = 3
    /\ \A k \in 1..3 : /\ commitPlans[k].action = "reuse"
                        /\ rewrittenMap[ShortHash(k)] = ShortHash(k)

----------------------------------------------------------------------------
(* Properties of planning alone, and of the parent lists                   *)

\* createPlan is running, has returned its plan, or has failed.
Planning ==
    mode = "plan" /\ (pc \in {"start", "plan"} \/ (pc = "failed" /\ newHashes = <<>>))

\* C11: planning leaves the object store and the branch as they were,
\* whether createPlan returns a plan or fails: it makes only the reading
\* calls getTreeHash and getCommitInfo, never createCommit or
\* updateCurrentBranch, and the plan file and the marker file keep their
\* contents.
C11_PlanningTouchesNothing ==
    Planning =>
        /\ objects = Repo
        /\ branch = RepoHead
        /\ \A c \in 1..Len(calls) :
              calls[c].op \in {"getTreeHash", "getCommitInfo"}
        /\ created = <<>>
        /\ todoFile = File(yaml)
        /\ stateFile = File(RepoBranch)

\* createPlan has failed on the second entry after reading for the first.
C11_Witness ==
    /\ mode = "plan"
    /\ pc = "failed"
    /\ error = "No rewritten commit found"
    /\ Len(commitPlans) = 1
    /\ \E c \in 1..Len(calls) : calls[c].op = "getTreeHash"
    /\ \E c \in 1..Len(calls) : calls[c].op = "getCommitInfo"
    /\ objects = Repo

\* The options of the createCommit call at position c of the call log.
OptionsOf(c) == created[Cardinality({d \in CreateCalls : d <= c})]

\* The new hashes of the entries before entry k.
EarlierHashes(k) == {newHashes[j] : j \in 1..(k - 1)}

C13_PreviousOnlyFirst ==
    \A k \in Processed : \A p \in 2..Len(yaml[k].parents) :
        (k > 1 /\ yaml[k].parents[p] = "previous")
            => resolved[k][p] # newHashes[k - 1]

----------------------------------------------------------------------------
(* Properties of the history extractor                                     *)

\* The extractor has emitted its descriptors.
Emitted == pc \notin {"extract", "fetch"}

\* The reference expected for the parent at position k (from 1) of the commit
\* at index idx (from 1) of the commit list.
ExpectedRef(idx, k) ==
    LET p == objects[commitHashes[idx]].parents[k]
    IN  IF k = 1 /\ idx > 1 /\ commitHashes[idx - 1] = p
        THEN "previous"
        ELSE IF \E j \in 1..Len(commitHashes) : commitHashes[j] = p
             THEN "rewritten:" \o Prefix(p, ShortLen)
             ELSE Prefix(p, ShortLen)

\* Descriptor d has the references and the content expected for the commit
\* at index idx.
RefersAsExpected(d, idx) ==
    /\ Len(d.parents) = Len(objects[commitHashes[idx]].parents)
    /\ \A k \in 1..Len(d.parents) : d.parents[k] = ExpectedRef(idx, k)
    /\ d.content = "commit:" \o Prefix(commitHashes[idx], ShortLen)

\* C14: the descriptor the extractor builds for the commit at an index has no
\* parent reference for a commit without parents and otherwise, per parent,
\* `previous` for a first parent that is the commit at the index before,
\* else `rewritten:` and the 7-digit prefix for a parent in the commit list,
\* else the bare 7-digit prefix; its content is `commit:` and the 7-digit
\* prefix of its own hash.
C14_ParentReferences ==
    /\ \A idx \in DOMAIN fetched : RefersAsExpected(fetched[idx], idx)
    /\ Emitted => \A idx \in 1..Len(yaml) : RefersAsExpected(yaml[idx], idx)

\* Emitted descriptors of a root commit, a commit on top of it and a merge
\* whose second parent is the commit before it, and so not `previous`.
C14_Witness ==
    /\ Emitted
    /\ Len(yaml) = 3
    /\ yaml[1].parents = <<>>
    /\ yaml[2].parents = <<"previous">>
    /\ yaml[3].parents = <<"rewritten:" \o ShortHash(1),
                           "rewritten:" \o ShortHash(2)>>
    /\ ShortHash(1) # ShortHash(2)

\* C15: whatever the order in which the fetches of commit metadata complete,
\* the descriptors are emitted in the order of the commit list, which has
\* every commit after its parents: descriptor k describes commit k.
C15_EmittedInListOrder ==
    Emitted =>
        /\ Len(yaml) = Len(commitHashes)
        /\ \A k \in 1..Len(yaml) :
              /\ yaml[k].content = "commit:" \o ShortHash(k)
              /\ yaml[k].message = Trim(objects[commitHashes[k]].message)
              /\ yaml[k].author.date = objects[commitHashes[k]].authorDate
        /\ \A a, b \in 1..Len(commitHashes) :
              (\E p \in 1..Len(objects[commitHashes[a]].parents) :
                    objects[commitHashes[a]].parents[p] = commitHashes[b])
                => b < a

\* Descriptors emitted after the fetch of the last commit completed first
\* and that of the first commit second.
C15_Witness ==
    /\ Emitted
    /\ Len(yaml) = 3
    /\ fetchOrder = <<3, 1, 2>>
    /\ \A k \in 1..3 : yaml[k].message = Trim(objects[commitHashes[k]].message)

----------------------------------------------------------------------------
(* Properties of the commands of the command line                          *)

\* The processes that have ended, as positions of runs.
Ended_Runs == {r \in 1..Len(runs) : runs[r].done}

\* Neither state file is on the disk d.
NoStateFiles(d) == ~exists(d.todo) /\ ~exists(d.state)

C17_ContinueWithoutPlan ==
    \A r \in 1..Len(runs) :
        (runs[r].name = "continue" /\ ~exists(runs[r].before.todo))
            => /\ runs[r].done
               /\ runs[r].exit # 0
               /\ runs[r].after = runs[r].before
               /\ (r = Len(runs) /\ command = "")
                     => /\ error = "No rescribe in progress"
                        /\ calls = <<>>
                        /\ created = <<>>

\* A continue with no plan file, after an earlier continue has moved the
\* branch and removed the plan file.
C17_Witness ==
    /\ command = ""
    /\ Len(runs) >= 3
    /\ runs[Len(runs)].name = "continue"
    /\ ~exists(runs[Len(runs)].before.todo)
    /\ runs[Len(runs)].before.branch # RepoHead
    /\ runs[Len(runs)].exit = 1
    /\ branch = runs[Len(runs)].before.branch

\* C18: an abort with no plan in progress ends in failure, with a non-zero
\* exit code, and changes nothing in the repository.
C18_AbortWithoutPlan ==
    \A r \in Ended_Runs :
        (runs[r].name = "abort" /\ ~exists(runs[r].before.todo))
            => /\ runs[r].exit # 0
               /\ runs[r].after = runs[r].before

\* C19: a start while a plan is in progress, its plan file on disk, ends
\* with an error and leaves the plan file and the marker file as they were.
C19_StartWhilePlanInProgress ==
    \A r \in Ended_Runs :
        (runs[r].name = "start" /\ exists(runs[r].before.todo))
            => /\ runs[r].exit # 0
               /\ runs[r].after.todo = runs[r].before.todo
               /\ runs[r].after.state = runs[r].before.state

\* Two aborts, one right after the other, as positions of runs.
AbortTwice ==
    {r \in 1..(Len(runs) - 1) :
        runs[r].name = "abort" /\ runs[r + 1].name = "abort"}

----------------------------------------------------------------------------
(* The branch update of executeRescribe(plan, options)                     *)

\* The new hash of the last plan entry, Null for an empty plan.
LastNewHash ==
    IF Len(newHashes) = 0 THEN Null ELSE newHashes[Len(newHashes)]

\* The branch is where the run found it.
BranchNotMoved == branch = RepoHead /\ BranchCalls = {}

\* The branch update is the last call of the run, made once every entry has
\* been processed, on the new hash of the last entry.
BranchMovedLast ==
    /\ Cardinality(BranchCalls) = 1
    /\ BranchCalls = {Len(calls)}
    /\ pc = "done"
    /\ Len(newHashes) = Len(commitPlans)
    /\ calls[Len(calls)].arg = LastNewHash
    /\ branch = ResolveName(DOMAIN objects, LastNewHash)

----------------------------------------------------------------------------
(* The placeholders and the cursor of createPlan                           *)

\* The entry the p-th parent reference of descriptor k refers to: k - 1 for
\* `previous`, the last earlier entry of original hash h for `rewritten:h`,
\* 0 for a hash or a reference to no entry.
ReferredEntry(k, p) ==
    IF yaml[k].parents[p] = "previous" THEN k - 1
    ELSE IF StartsWith(yaml[k].parents[p], "rewritten:")
         THEN EarlierEntryOf(k, RewrittenTarget(yaml[k].parents[p]))
         ELSE 0

\* C22: in the plan createPlan builds, a `pending` among the resolved parents
\* of an entry is the resolution of a reference to the entry immediately
\* before it, never of a reference to an entry further back.
C22_PendingIsPredecessor ==
    \A k \in 1..Len(commitPlans) : \A p \in 1..Len(commitPlans[k].parents) :
        commitPlans[k].parents[p] = "pending" => ReferredEntry(k, p) = k - 1


\* The cursor createPlan is to hold after entry k of the plan.
CursorAfter(k) ==
    IF commitPlans[k].action = "reuse" THEN commitPlans[k].originalHash
    ELSE "pending"

\* C23: after an entry createPlan classified reuse the cursor is the entry's
\* original hash, after an entry it classified create the cursor is
\* `pending`; a `previous` of the next entry resolves in the plan to that
\* cursor, a concrete hash after a reuse.
C23_CursorAfterEntry ==
    mode = "plan" =>
        /\ Len(commitPlans) > 0 => previousCommit = CursorAfter(Len(commitPlans))
        /\ \A k \in 2..Len(commitPlans) : \A p \in 1..Len(yaml[k].parents) :
              yaml[k].parents[p] = "previous" =>
                  /\ commitPlans[k].parents[p] = CursorAfter(k - 1)
                  /\ commitPlans[k - 1].action = "reuse" =>
                        /\ commitPlans[k].parents[p] # "pending"
                        /\ HashPattern(commitPlans[k].parents[p])

\* A plan whose first entry is reused and whose second entry has that
\* entry's original hash for its `previous`, and a third entry that is
\* created and leaves the cursor pending.
C23_Witness ==
    /\ mode = "plan"
    /\ Len(commitPlans) = 3
    /\ commitPlans[1].action = "reuse"
    /\ yaml[2].parents = <<"previous">>
    /\ commitPlans[2].parents = <<"c1c1c1c">>
    /\ commitPlans[3].action = "create"
    /\ previousCommit = "pending"

----------------------------------------------------------------------------
(* The commits and the replacement mapping of executeRescribe(plan)        *)

\* The createCommit calls made for entry k.
CreateCallsOf(k) == {c \in CreateCalls : calls[c].entry = k}

\* Each processed entry of the plan: a reused one caused no createCommit
\* call and has its original hash for new hash, a created one caused one
\* call, whose result is its new hash; no other entry caused a call.
OneCallPerCreate ==
    /\ \A k \in Processed :
          IF commitPlans[k].action = "reuse"
          THEN /\ CreateCallsOf(k) = {}
               /\ newHashes[k] = commitPlans[k].originalHash
          ELSE /\ Cardinality(CreateCallsOf(k)) = 1
               /\ \A c \in CreateCallsOf(k) : calls[c].result = newHashes[k]
    /\ \A c \in CreateCalls : calls[c].entry \in Processed
    /\ Cardinality(CreateCalls)
          = Cardinality({k \in Processed : commitPlans[k].action = "create"})
    /\ pc = "done" => Len(newHashes) = Len(commitPlans)

\* The last entry of the plan with the original hash of entry k.
LastEntryOf(k) ==
    CHOOSE j \in k..Len(commitPlans) :
        /\ commitPlans[j].originalHash = commitPlans[k].originalHash
        /\ \A m \in (j + 1)..Len(commitPlans) :
              commitPlans[m].originalHash # commitPlans[k].originalHash

\* C24 as stated: one createCommit call for each entry to create and none
\* for an entry to reuse, whose new hash is its original hash; after the
\* run the replacement mapping takes the original hash of each entry that
\* has one to the new hash of that entry.
C24_MappingHoldsEachNewHash ==
    mode = "plan" =>
        /\ OneCallPerCreate
        /\ pc = "done" =>
              \A k \in 1..Len(commitPlans) :
                  ~Falsy(commitPlans[k].originalHash) =>
                      MapGet(rewrittenMap, commitPlans[k].originalHash)
                          = newHashes[k]

\* C24, amended: one createCommit call for each entry to create and none for
\* an entry to reuse, whose new hash is its original hash; after the run the
\* replacement mapping takes the original hash of each entry that has one to
\* the new hash of the last entry that has this original hash, and has no
\* other key.
C24_MappingHoldsLastNewHash ==
    mode = "plan" =>
        /\ OneCallPerCreate
        /\ pc = "done" =>
              /\ \A k \in 1..Len(commitPlans) :
                    ~Falsy(commitPlans[k].originalHash) =>
                        MapGet(rewrittenMap, commitPlans[k].originalHash)
                            = newHashes[LastEntryOf(k)]
              /\ DOMAIN rewrittenMap
                    = {commitPlans[k].originalHash : k \in 1..Len(commitPlans)}
                          \ {Null}

\* A finished run whose first entry was reused and whose second entry, a
\* reworded copy of the same commit, was created: the mapping holds the new
\* hash of the second.
C24_Witness ==
    /\ mode = "plan"
    /\ pc = "done"
    /\ Len(commitPlans) >= 2
    /\ commitPlans[1].action = "reuse"
    /\ commitPlans[2].action = "create"
    /\ commitPlans[2].originalHash = commitPlans[1].originalHash
    /\ newHashes[2] \notin {"", newHashes[1]}
    /\ rewrittenMap[commitPlans[1].originalHash] = newHashes[2]

----------------------------------------------------------------------------
(* The order of executeRescribe(plan): the runtime runs the steps of a     *)
(* process for as long as one is there to run                              *)

\* The plan files of the runs followed to their end: entries that are
\* reused, created, created in vain, refer to one another, or are invalid.
RunDescriptors == {Keep1, Keep2, Keep3, Reword1, NoSuchTree, BadContent}

InitPlanned ==
    /\ yaml \in SeqsUpTo(RunDescriptors, MaxPlan)
    /\ mode = "plan"
    /\ objects = Repo
    /\ branch = RepoHead
    /\ base = ""
    /\ commitHashes = <<>>
    /\ fetched = <<>>
    /\ fetchOrder = <<>>
    /\ todoFile = File(yaml)
    /\ stateFile = File(RepoBranch)
    /\ NoProcess
    /\ pc = "start"
    /\ InitRun

NextPlanned ==
    \/ createPlanValidate
    \/ createPlanEntry
    \/ executeRescribeStart
    \/ executeRescribeEntry
    \/ executeRescribeFinish

Executing == mode = "plan" /\ pc = "exec"

\* executeRescribe is resumed when the call it awaits returns: the loop
\* moves on to the next entry, or the function moves on to its end.  Each
\* step of executeRescribeEntry and of executeRescribeFinish is such a step.
Resumed ==
    /\ Executing
    /\ pc' \in {"exec", "done"}
    /\ i' \in {i, i + 1}
    /\ <<pc', i'>> # <<pc, i>>

\* Every call to the object store returns, so a run that is executing is
\* resumed in the end.
SpecRun == InitPlanned /\ [][NextPlanned]_vars /\ WF_<<pc, i>>(Resumed)

\* A step of the loop: entry i, the entry after those whose new hash is
\* known, gets its new hash; the createCommit call the step makes, if any,
\* is the one for entry i and the only entry without a new hash at that
\* time is entry i.
EntryStep ==
    /\ i <= Len(commitPlans)
    /\ Len(newHashes) = i - 1
    /\ pc' = "exec"
    /\ i' = i + 1
    /\ Len(newHashes') = i
    /\ SubSeq(newHashes', 1, i - 1) = newHashes
    /\ Len(calls') \in {Len(calls), Len(calls) + 1}
    /\ SubSeq(calls', 1, Len(calls)) = calls
    /\ Len(calls') > Len(calls) =>
          /\ calls'[Len(calls')].op = "createCommit"
          /\ calls'[Len(calls')].entry = i
          /\ calls'[Len(calls')].result = newHashes'[i]

\* The step after the last entry: every entry has its new hash and no
\* createCommit call is made.
FinishStep ==
    /\ i = Len(commitPlans) + 1
    /\ Len(newHashes) = Len(commitPlans)
    /\ pc' = "done"
    /\ newHashes' = newHashes
    /\ \A c \in (Len(calls) + 1)..Len(calls') : calls'[c].op # "createCommit"

\* C25: executeRescribe processes the entries of the plan one at a time in
\* plan order, each once: every step of it either gives the next entry its
\* new hash, with at most the createCommit call of that entry, or ends the
\* run after the last entry; and a run that has started ends with every
\* entry processed.
C25_EntriesInOrderToTheEnd ==
    /\ [][Executing => (EntryStep \/ FinishStep)]_vars
    /\ Executing ~> (pc = "done" /\ Len(newHashes) = Len(commitPlans))

\* A finished run over three entries, each of them created by its own call,
\* the calls in the order of the entries.
C25_Witness ==
    /\ mode = "plan"
    /\ pc = "done"
    /\ Len(commitPlans) = 3
    /\ Len(newHashes) = 3
    /\ \E a, b, c \in CreateCalls :
          /\ a < b /\ b < c
          /\ calls[a].entry = 1 /\ calls[b].entry = 2 /\ calls[c].entry = 3

----------------------------------------------------------------------------
(* The state files when executeRescribe fails under continueRebase         *)

\* The continue processes that found a plan file and ended with an error:
\* executeRescribe has thrown.
FailedContinues ==
    {r \in 1..Len(runs) :
        /\ runs[r].name = "continue"
        /\ runs[r].done
        /\ runs[r].exit # 0
        /\ exists(runs[r].before.todo)}

\* A failed continue leaves the plan file, with its content, and the marker
\* file it found.
FailedContinueKeepsFiles ==
    \A r \in FailedContinues :
        /\ exists(runs[r].after.todo)
        /\ runs[r].after.todo = runs[r].before.todo
        /\ runs[r].after.state = runs[r].before.state

\* A step of a continue process that changes a state file is taken after
\* executeRescribe has returned without an error.
FilesChangeAfterSuccess ==
    (command = "continue" /\ <<todoFile, stateFile>>' # <<todoFile, stateFile>>)
        => (pc = "done" /\ error = "")

\* C26: when executeRescribe throws under continueRebase, the plan file and
\* the marker file are left as they were found, so that continue or abort
\* can be run again; a continue process touches the state files only after
\* executeRescribe has returned.
C26_FailedContinueKeepsStateFiles ==
    /\ []FailedContinueKeepsFiles
    /\ [][FilesChangeAfterSuccess]_vars

\* A continue that failed on a plan the user had saved, with both state
\* files in place afterwards, followed by an abort that removed them.
C26_Witness ==
    \E r \in FailedContinues :
        /\ exists(runs[r].before.state)
        /\ exists(runs[r].after.todo) /\ exists(runs[r].after.state)
        /\ r < Len(runs)
        /\ runs[r + 1].name = "abort"
        /\ runs[r + 1].failed = {}
        /\ NoStateFiles(runs[r + 1].after)

----------------------------------------------------------------------------
(* The references of the plan file the extractor writes                    *)

ReferenceErrors ==
    {"Cannot use 'previous' for first commit", "No rewritten commit found"}

\* C27: in the plan file the extractor writes for a topologically ordered
\* commit list, the first descriptor has no `previous` among its parents
\* and every `rewritten:h` names the original hash of a descriptor at a
\* strictly earlier index; createPlan throws no reference error on it.
C27_ExtractedReferencesResolve ==
    Emitted =>
        /\ \A k \in 1..Len(yaml) : \A p \in 1..Len(yaml[k].parents) :
              /\ yaml[k].parents[p] = "previous" => k > 1
              /\ StartsWith(yaml[k].parents[p], "rewritten:") =>
                    \E j \in 1..(k - 1) :
                        extractOriginalHash(yaml[j].content)
                            = RewrittenTarget(yaml[k].parents[p])
        /\ error \notin ReferenceErrors
        /\ pc = "failed" => error = "ZodError"

\* A plan file of three descriptors with a `previous` and a `rewritten:`
\* reference to the first commit, which createPlan has planned to the end.
C27_Witness ==
    /\ Emitted
    /\ Len(yaml) = 3
    /\ Len(commitPlans) = 3
    /\ yaml[2].parents = <<"previous">>
    /\ \E p \in 1..Len(yaml[3].parents) :
          /\ StartsWith(yaml[3].parents[p], "rewritten:")
          /\ RewrittenTarget(yaml[3].parents[p])
                = extractOriginalHash(yaml[1].content)

----------------------------------------------------------------------------
(* The soundness of reuse                                                  *)

\* The parents the commit an entry names has in the store.
RealParents(k) ==
    objects[ResolveName(DOMAIN objects, commitPlans[k].originalHash)].parents

\* C28: in the plan createPlan builds, an entry to reuse has no `pending`
\* among its resolved parents; an entry that refers, by `previous` or
\* `rewritten:`, to an entry to create is itself to create; and after the
\* run each parent of a reused commit is the new hash of the entry the
\* descriptor refers to at that position.
C28_ReuseIsSound ==
    mode = "plan" =>
        /\ \A k \in 1..Len(commitPlans) :
              commitPlans[k].action = "reuse" =>
                  \A p \in 1..Len(commitPlans[k].parents) :
                      commitPlans[k].parents[p] # "pending"
        /\ \A k \in 1..Len(commitPlans) : \A p \in 1..Len(yaml[k].parents) :
              (/\ ReferredEntry(k, p) > 0
               /\ commitPlans[ReferredEntry(k, p)].action = "create")
                  => commitPlans[k].action = "create"
        /\ pc = "done" =>
              \A k \in 1..Len(commitPlans) : \A p \in 1..Len(yaml[k].parents) :
                  (commitPlans[k].action = "reuse" /\ ReferredEntry(k, p) > 0)
                      => /\ Len(RealParents(k)) = Len(yaml[k].parents)
                         /\ RealParents(k)[p]
                              = ResolveName(DOMAIN objects,
                                            newHashes[ReferredEntry(k, p)])

\* A finished run that reused a chain of three commits, the last of them a
\* merge that refers to the first by `rewritten:` and to the second by
\* `previous`.
C28_Witness ==
    /\ mode = "plan"
    /\ pc = "done"
    /\ Len(commitPlans) = 3
    /\ \A k \in 1..3 : commitPlans[k].action = "reuse"
    /\ yaml[2].parents = <<"previous">>
    /\ yaml[3].parents = <<"previous", "rewritten:c1c1c1c">>
    /\ newHashes = <<"c1c1c1c", "c2c2c2c", "c3c3c3c">>

----------------------------------------------------------------------------
(* The parents createCommit is given                                       *)

\* C29: no parent executeRescribe passes to createCommit is the placeholder
\* `pending` or null; an entry with a `pending` parent is not the first, and
\* the placeholder is replaced by the cursor, which holds the new hash of
\* the entry before.
C29_NoPlaceholderReachesCreateCommit ==
    mode = "plan" =>
        /\ \A c \in 1..Len(created) : \A p \in 1..Len(created[c].parents) :
              created[c].parents[p] \notin {"pending", Null, Undefined}
        /\ \A k \in Processed : \A p \in 1..Len(commitPlans[k].parents) :
              /\ resolved[k][p] \notin {"pending", Null, Undefined}
              /\ commitPlans[k].parents[p] = "pending" =>
                    /\ k > 1
                    /\ resolved[k][p] = newHashes[k - 1]
        /\ (pc = "exec" /\ i > 1) => finalCommit = newHashes[i - 1]

\* A created merge both of whose parents were placeholders, passed to
\* createCommit as the commit created for the entry before.
C29_Witness ==
    /\ mode = "plan"
    /\ Len(newHashes) = 3
    /\ commitPlans[3].action = "create"
    /\ commitPlans[3].parents = <<"pending", "pending">>
    /\ HashPattern(newHashes[2])
    /\ commitPlans[2].action = "create"
    /\ created[Len(created)].parents = <<newHashes[2], newHashes[2]>>

----------------------------------------------------------------------------
(* The change reason `content`                                             *)

\* C30: createPlan never lists the change `content`: the tree it resolves
\* for `commit:h` or `diff:h` is the tree of the commit h it compares with.
C30_ContentNeverReported ==
    \A k \in 1..Len(commitPlans) : \A r \in 1..Len(commitPlans[k].changes) :
        commitPlans[k].changes[r] # "content"

----------------------------------------------------------------------------
(* The two executors on one plan file: createPlan and executeRescribe(plan) *)
(* first, executeRescribe(yamlPath) after it, in the same store, where a    *)
(* commit written twice has one name                                        *)

\* The planned run has ended; the plan file is given to
\* executeRescribe(yamlPath), whose entries are appended to the records of
\* the planned run.
executeRescribeYamlPath ==
    /\ mode = "plan"
    /\ pc = "done"
    /\ mode' = "direct"
    /\ pc' = "start"
    /\ i' = 0
    /\ UNCHANGED <<extractVars, cliVars, yaml, error, commitPlans, rewrittenMap,
                   previousCommit, finalCommit, updateHead, objects, branch,
                   calls, created, resolved, newHashes>>

NextBoth ==
    \/ createPlanValidate
    \/ createPlanEntry
    \/ executeRescribeStart
    \/ executeRescribeEntry
    \/ executeRescribeFinish
    \/ executeRescribeYamlPath
    \/ directValidate
    \/ directEntry
    \/ directFinish

SpecBoth == InitPlanned /\ [][NextBoth]_vars

\* Both runs have ended without an error, and every commit they were to
\* create was created: every reference of the plan file resolved.
BothDone ==
    /\ mode = "direct"
    /\ pc = "done"
    /\ Len(newHashes) = 2 * Len(yaml)
    /\ \A k \in 1..Len(newHashes) : newHashes[k] # ""

\* The commit a name stands for in the store.
CommitOf(name) == ResolveName(DOMAIN objects, name)

\* C31: for a plan file whose references resolve, the planned run and the
\* direct run give every entry the same parents, commit by commit, and end
\* on the same final commit.
C31_PlannedEqualsDirect ==
    BothDone =>
        /\ \A k \in 1..Len(yaml) :
              /\ Len(resolved[k]) = Len(resolved[Len(yaml) + k])
              /\ \A p \in 1..Len(resolved[k]) :
                    CommitOf(resolved[k][p])
                        = CommitOf(resolved[Len(yaml) + k][p])
        /\ Len(yaml) > 0 => CommitOf(finalCommit) = CommitOf(previousCommit)

----------------------------------------------------------------------------
(* The state files when a step of an operation fails                       *)

\* Deno.remove fails on a file that exists (it cannot be removed, or the
\* process is stopped before the call): the try block ends at the removal
\* of the plan file, or at the removal of the marker file once the plan
\* file is gone.
removeFailing(todo, state) ==
    {[todo |-> todo, state |-> state, failed |-> {"remove RESCRIBE_TODO"}] :
        x \in {y \in {todo} : exists(todo)}}
    \cup {[todo |-> Absent, state |-> state,
           failed |-> {"remove RESCRIBE_STATE"}] :
             x \in {y \in {state} : exists(todo) /\ exists(state)}}

\* abortRebase when a removal fails: the failure is caught and logged, a
\* git rebase in progress is aborted, and the process ends normally.
abortRebaseRemoveFails ==
    /\ Idle
    /\ \E r \in removeFailing(todoFile, stateFile) :
          /\ todoFile' = r.todo
          /\ stateFile' = r.state
          /\ rebaseDir' = FALSE
          /\ runs' = Append(runs,
                Run("abort", Disk(todoFile, stateFile, rebaseDir, objects, branch),
                    Disk(r.todo, r.state, FALSE, objects, branch),
                    exitOf(FALSE), r.failed, TRUE))
    /\ ResetRun("")
    /\ exitCode' = exitOf(FALSE)
    /\ UNCHANGED <<extractVars, command, yaml, mode, pc, objects, branch>>

\* continueRebase after executeRescribe has returned, when a removal fails:
\* the failure is caught and ignored.
continueCleanUpRemoveFails ==
    /\ command = "continue"
    /\ pc = "done"
    /\ \E r \in removeFailing(todoFile, stateFile) :
          /\ todoFile' = r.todo
          /\ stateFile' = r.state
          /\ EndRun(Disk(r.todo, r.state, rebaseDir, objects, branch),
                    exitOf(FALSE), r.failed)
    /\ pc' = "idle"
    /\ UNCHANGED <<extractVars, rebaseDir, yaml, mode, i, error, commitPlans,
                   rewrittenMap, previousCommit, finalCommit, updateHead,
                   objects, branch, calls, created, resolved, newHashes>>

\* The commands of the command line, each finishing or failing at one of
\* its steps.
NextCliFailing ==
    \/ NextCli
    \/ abortRebaseRemoveFails
    \/ continueCleanUpRemoveFails

SpecCliFailing == InitCli /\ [][NextCliFailing]_vars

\* C32: when no command is running, whatever commands have run and
\* wherever each of them has failed, the marker file exists only if the
\* plan file exists.
C32_MarkerOnlyWithPlan ==
    command = "" => (exists(stateFile) => exists(todoFile))

====
